---------------------------- MODULE Spec2Model ----------------------------
(***************************************************************************)
(* Webhook ingestion service (app/main.py, app/metrics.py, app/models.py,  *)
(* app/config.py, app/storage.py): signature verification, payload         *)
(* validation, idempotent persistence, the in-memory metrics collector,    *)
(* the listing and statistics queries and the health probes.               *)
(*                                                                         *)
(* A Python str is a sequence of one-character strings.  The optional      *)
(* `text` is run-length encoded: `chars` followed by `pad` filler          *)
(* characters, so that texts of 4096 and 4097 characters stay small.       *)
(***************************************************************************)
EXTENDS Integers, Sequences, FiniteSets, TLC

\* Number of HTTP requests the service receives in one behaviour.
MaxRequests == 2

\* main.py:75  len(v) > 4096
MaxTextLen == 4096

Reqs == 1..MaxRequests

----------------------------------------------------------------------------
(* Characters and strings *)

LF == "\n"

Digits == {"0", "1", "2", "3", "4", "5", "6", "7", "8", "9"}

\* str.strip() without arguments removes these (among others).
Whitespace == {" ", LF}

\* JSON values of the envelope's fields: a string, or something else.
Str(s) == [tag |-> "str", chars |-> s, pad |-> 0]
Text(s, n) == [tag |-> "str", chars |-> s, pad |-> n]
Absent == [tag |-> "absent", chars |-> <<>>, pad |-> 0]
Null == [tag |-> "null", chars |-> <<>>, pad |-> 0]

\* len(v)
StrLen(v) == Len(v.chars) + v.pad

\* Python's `$` (no re.MULTILINE): the end of the string, or just before a
\* newline that is the last character.  `pos` is the next unread index.
DollarAt(s, pos) ==
    \/ pos = Len(s) + 1
    \/ pos = Len(s) /\ s[pos] = LF

\* v.strip() is empty: every character is whitespace.
StripIsEmpty(s) == \A i \in 1..Len(s) : s[i] \in Whitespace

\* main.py:49-53
message_id_not_empty(v) ==
    /\ v.tag = "str"
    /\ ~(Len(v.chars) = 0 \/ StripIsEmpty(v.chars))

\* re.match(r"^\+\d+$", s)
MatchE164(s) ==
    /\ Len(s) >= 2
    /\ s[1] = "+"
    /\ \E k \in 2..Len(s) :
          /\ \A i \in 2..k : s[i] \in Digits
          /\ DollarAt(s, k + 1)

\* main.py:55-59
from_is_e164(v) == v.tag = "str" /\ MatchE164(v.chars)

\* main.py:61-65
to_is_e164(v) == v.tag = "str" /\ MatchE164(v.chars)

\* The literal characters of ^\d{4}-\d{2}-\d{2}T\d{2}:\d{2}:\d{2}Z$ by
\* position; every other position is \d.
TsLiterals == (5 :> "-") @@ (8 :> "-") @@ (11 :> "T") @@ (14 :> ":") @@
              (17 :> ":") @@ (20 :> "Z")

TsPatternLen == 20

\* re.match(r"^\d{4}-\d{2}-\d{2}T\d{2}:\d{2}:\d{2}Z$", s)
MatchIsoUtc(s) ==
    /\ Len(s) >= TsPatternLen
    /\ \A i \in 1..TsPatternLen :
          IF i \in DOMAIN TsLiterals THEN s[i] = TsLiterals[i]
                                     ELSE s[i] \in Digits
    /\ DollarAt(s, TsPatternLen + 1)

\* main.py:67-71
ts_is_iso8601_utc(v) == v.tag = "str" /\ MatchIsoUtc(v.chars)

\* main.py:47, 73-77: Optional[str] = None; `if v and len(v) > 4096`
text_max_length(v) ==
    \/ v.tag \in {"absent", "null"}
    \/ v.tag = "str" /\ ~(StrLen(v) > 0 /\ StrLen(v) > MaxTextLen)


\* main.py:190-207: `await request.json()` then `MessageRequest(**data)`;
\* any exception (malformed JSON, a non-object, a missing or non-string
\* required field, a failing validator) is a validation error.
MessageRequest(b) ==
    /\ b.json = "object"
    /\ message_id_not_empty(b.message_id)
    /\ from_is_e164(b.from)
    /\ to_is_e164(b.to)
    /\ ts_is_iso8601_utc(b.ts)
    /\ text_max_length(b.text)

----------------------------------------------------------------------------
(* Request bodies the senders deliver *)

Ts1 == <<"2","0","2","5","-","0","1","-","1","5","T","1","0",":","0","0",":","0","0","Z">>
Ts2 == <<"2","0","2","5","-","0","1","-","1","5","T","0","9",":","3","0",":","0","0","Z">>
\* "2025-01-15 10:00:00"
TsSpace == <<"2","0","2","5","-","0","1","-","1","5"," ","1","0",":","0","0",":","0","0">>

Envelope(id, f, t, ts, txt) ==
    [json |-> "object", message_id |-> id, from |-> f, to |-> t, ts |-> ts, text |-> txt]

NotAnEnvelope(kind) ==
    [json |-> kind, message_id |-> Absent, from |-> Absent, to |-> Absent,
     ts |-> Absent, text |-> Absent]

M1 == Str(<<"m", "1">>)
M2 == Str(<<"m", "2">>)
M3 == Str(<<"m", "3">>)
PhoneA == Str(<<"+", "1">>)
PhoneB == Str(<<"+", "2", "0">>)

BodyOf ==
    [ P1        |-> Envelope(M1, PhoneA, PhoneB, Str(Ts1), Absent),
      \* the same message_id redelivered with other field values
      P1b       |-> Envelope(M1, PhoneB, PhoneA, Str(Ts2), Str(<<"h", "i">>)),
      P2        |-> Envelope(M2, PhoneA, PhoneB, Str(Ts1), Text(<<"h", "i">>, MaxTextLen - 2)),
      LongText  |-> Envelope(M3, PhoneA, PhoneB, Str(Ts1), Text(<<"h", "i">>, MaxTextLen - 1)),
      NoPlus    |-> Envelope(M3, Str(<<"1", "2">>), PhoneB, Str(Ts1), Absent),
      Alpha     |-> Envelope(M3, PhoneA, Str(<<"+", "a", "b">>), Str(Ts1), Null),
      BadTs     |-> Envelope(M3, PhoneA, PhoneB, Str(TsSpace), Absent),
      BlankId   |-> Envelope(Str(<<" ", LF>>), PhoneA, PhoneB, Str(Ts1), Absent),
      NoTo      |-> Envelope(M3, PhoneA, Absent, Str(Ts1), Absent),
      \* "+1\n" and "2025-01-15T10:00:00Z\n"
      NlFrom    |-> Envelope(M3, Str(<<"+", "1", LF>>), PhoneB, Str(Ts1), Absent),
      NlTs      |-> Envelope(M3, PhoneA, PhoneB, Str(Ts1 \o <<LF>>), Absent),
      Malformed |-> NotAnEnvelope("malformed"),
      Array     |-> NotAnEnvelope("array") ]

Bodies == DOMAIN BodyOf

----------------------------------------------------------------------------
(* Signature *)

\* config.py:11  os.getenv("WEBHOOK_SECRET") is None when the variable is unset
NoSecret == "None"

\* X-Signature header values
NoHeader == [tag |-> "absent", key |-> "", body |-> "", upper |-> FALSE]
EmptyHeader == [tag |-> "empty", key |-> "", body |-> "", upper |-> FALSE]
\* a header value with a byte above 0x7f (decoded as latin-1 by the framework)
NonAsciiHeader == [tag |-> "nonascii", key |-> "", body |-> "", upper |-> FALSE]
\* the same hex digits in upper case
UpperHex(h) == [h EXCEPT !.upper = TRUE]

\* main.py:176-180  hmac.new(secret.encode(), raw_body, sha256).hexdigest():
\* lowercase hex, one value per (key, body).
hexdigest(key, body) == [tag |-> "hex", key |-> key, body |-> body, upper |-> FALSE]

\* main.py:168  `if not x_signature`
HeaderMissing(x) == x.tag \in {"absent", "empty"}

\* main.py:177  None.encode() raises AttributeError
EncodeRaises(key) == key = NoSecret

\* main.py:182  hmac.compare_digest raises TypeError on a non-ASCII str
CompareRaises(x) == x.tag = "nonascii"

\* main.py:182
compare_digest(x, expected) == x = expected

----------------------------------------------------------------------------
(* Message store *)

\* models.py:6-14 and main.py:211-218: the row built from a validated request
Message(b, created_at) ==
    [message_id |-> b.message_id, from_msisdn |-> b.from, to_msisdn |-> b.to,
     ts |-> b.ts, text |-> b.text, created_at |-> created_at]

NoRow == Message(NotAnEnvelope("none"), 0)

\* Uniqueness over whole rows instead of over message_id.
IntegrityError_WholeRow(table, row) == row \in table

\* A composite primary key (message_id, from_msisdn).
IntegrityError_CompositeKey(table, row) ==
    \E m \in table : m.message_id = row.message_id /\ m.from_msisdn = row.from_msisdn

\* models.py:9  message_id is the primary key: the INSERT of db.commit()
\* raises IntegrityError when a row with this message_id exists.
IntegrityError(table, row) == \E m \in table : m.message_id = row.message_id

\* The committed row takes the place of the table.
db_commit_Replace(table, row) == {row}

\* main.py:219-220  db.add(new_msg); db.commit()
db_commit(table, row) == table \cup {row}

\* The conflicting row is merged over the stored one instead of discarded.
db_rollback_Merge(table, row) ==
    {m \in table : m.message_id # row.message_id} \cup {row}

\* main.py:238, 254  db.rollback(): the pending INSERT is discarded
db_rollback(table, row) == table

----------------------------------------------------------------------------
(* Queries on the message store, main.py:292-313 and 349-364 *)

\* The filler character of a run-length encoded text.
Filler == "x"

\* The characters of a stored or supplied string.
Chars(v) == v.chars \o [i \in 1..v.pad |-> Filler]

\* A column that holds NULL, a parameter that is None.
IsNone(v) == v.tag # "str"

\* Python's truth value of an Optional[str]: neither None nor "".
Truthy(v) == v.tag = "str" /\ StrLen(v) > 0

\* An integer query parameter.
IntParam(n) == [tag |-> "int", n |-> n]

\* Code points of the characters in use.
CodePoint ==
    [c \in {LF} |-> 10] @@
    (" " :> 32) @@ ("%" :> 37) @@ ("+" :> 43) @@ ("-" :> 45) @@
    ("0" :> 48) @@ ("1" :> 49) @@ ("2" :> 50) @@ ("3" :> 51) @@ ("4" :> 52) @@
    ("5" :> 53) @@ ("6" :> 54) @@ ("7" :> 55) @@ ("8" :> 56) @@ ("9" :> 57) @@
    (":" :> 58) @@ ("H" :> 72) @@ ("I" :> 73) @@ ("T" :> 84) @@ ("Z" :> 90) @@
    ("_" :> 95) @@ ("a" :> 97) @@ ("b" :> 98) @@ ("h" :> 104) @@ ("i" :> 105) @@
    ("m" :> 109) @@ ("t" :> 116) @@ ("x" :> 120) @@ ("z" :> 122)

\* The text comparison of the store (binary collation): a is before b when
\* it is a proper prefix of b or is smaller at the first difference.
StrLess(a, b) ==
    \E k \in 1..Len(b) :
        /\ k <= Len(a) + 1
        /\ \A i \in 1..(k - 1) : a[i] = b[i]
        /\ IF k = Len(a) + 1 THEN TRUE ELSE CodePoint[a[k]] < CodePoint[b[k]]

\* main.py:302  Message.ts >= since
StrGE(a, b) == ~StrLess(a, b)

\* lower() of one character
lower(c) == IF CodePoint[c] >= 65 /\ CodePoint[c] <= 90
               THEN CHOOSE d \in DOMAIN CodePoint : CodePoint[d] = CodePoint[c] + 32
               ELSE c

\* s LIKE p, from position i of s and j of p: `%` stands for any run of
\* characters, `_` for any one character, no escape character is declared.
RECURSIVE Like(_, _, _, _)
Like(s, i, p, j) ==
    IF j > Len(p) THEN i > Len(s)
    ELSE IF p[j] = "%" THEN \E k \in i..(Len(s) + 1) : Like(s, k, p, j + 1)
    ELSE IF i > Len(s) THEN FALSE
    ELSE IF p[j] = "_" \/ s[i] = p[j] THEN Like(s, i + 1, p, j + 1)
    ELSE FALSE

\* main.py:304  Message.text.ilike(f"%{q}%"): lower(text) LIKE lower('%q%');
\* NULL is like nothing.
ilike(text, q) ==
    /\ ~IsNone(text)
    /\ Like([i \in 1..StrLen(text) |-> lower(Chars(text)[i])], 1,
            <<"%">> \o [i \in 1..Len(q) |-> lower(q[i])] \o <<"%">>, 1)

\* main.py:297-304: the filters of get_messages
Filter(table, from_, since, q) ==
    {m \in table :
        /\ Truthy(from_) => Chars(m.from_msisdn) = Chars(from_)
        /\ Truthy(since) => StrGE(Chars(m.ts), Chars(since))
        /\ Truthy(q) => ilike(m.text, Chars(q))}

\* Ties on ts are broken by descending message_id.
RowBefore_IdDescending(a, b) ==
    \/ StrLess(Chars(a.ts), Chars(b.ts))
    \/ a.ts = b.ts /\ StrLess(Chars(b.message_id), Chars(a.message_id))

\* main.py:309  order_by(Message.ts.asc(), Message.message_id.asc())
RowBefore(a, b) ==
    \/ StrLess(Chars(a.ts), Chars(b.ts))
    \/ a.ts = b.ts /\ StrLess(Chars(a.message_id), Chars(b.message_id))

\* The rows of a set as the list ORDER BY yields.
RECURSIVE OrderBy(_)
OrderBy(rows) ==
    IF rows = {} THEN <<>>
    ELSE LET first == CHOOSE m \in rows : \A o \in rows \ {m} : RowBefore(m, o)
         IN  <<first>> \o OrderBy(rows \ {first})

\* main.py:310-311  .limit(limit).offset(offset)
LimitOffset(list, limit, offset) ==
    IF offset >= Len(list) THEN <<>>
    ELSE SubSeq(list, offset + 1,
                IF offset + limit < Len(list) THEN offset + limit ELSE Len(list))

\* main.py:82-90, 328  MessageResponse.from_orm(m)
MessageResponse(m) ==
    [message_id |-> m.message_id, from_msisdn |-> m.from_msisdn,
     to_msisdn |-> m.to_msisdn, ts |-> m.ts, text |-> m.text]

\* The fallback is the nearest bound instead of the default.
EffectiveLimit_Nearest(limit) ==
    IF limit < 1 THEN 1 ELSE IF limit > 100 THEN 100 ELSE limit

\* main.py:292-293
EffectiveLimit(limit) == IF limit < 1 \/ limit > 100 THEN 50 ELSE limit

\* main.py:294-295
EffectiveOffset(offset) == IF offset < 0 THEN 0 ELSE offset

\* main.py:273-277: the framework binds each parameter of get_messages to the
\* query parameter of the same name, or to its default; other query
\* parameters are ignored.
Bound(qs) ==
    [limit  |-> IF qs.limit.tag = "int" THEN qs.limit.n ELSE 50,
     offset |-> IF qs.offset.tag = "int" THEN qs.offset.n ELSE 0,
     from_  |-> qs.from_,
     since  |-> qs.since,
     q      |-> qs.q]

\* main.py:306  total = query.count()
query_count(table, args) ==
    Cardinality(Filter(table, args.from_, args.since, args.q))

\* main.py:308-313, 328
query_all(table, args) ==
    LET list == OrderBy(Filter(table, args.from_, args.since, args.q))
        page == LimitOffset(list, EffectiveLimit(args.limit), EffectiveOffset(args.offset))
    IN  [i \in 1..Len(page) |-> MessageResponse(page[i])]

\* main.py:349  db.query(Message).count()
total_messages(table) == Cardinality(table)

\* The senders are counted without DISTINCT.
senders_count_All(table) == Cardinality(table)

\* main.py:350  db.query(Message.from_msisdn).distinct().count()
senders_count(table) == Cardinality({m.from_msisdn : m \in table})

\* count() of one group of GROUP BY from_msisdn
CountOf(table, sender) == Cardinality({m \in table : m.from_msisdn = sender})

\* ORDER BY count DESC names no second key: the engine returns groups of
\* equal count in an order of its own, here by ascending or by descending
\* sender.
TieOrders == {"ascending", "descending"}

\* main.py:355  order_by(func.count().desc())
GroupBefore(table, a, b, ties) ==
    \/ CountOf(table, a) > CountOf(table, b)
    \/ /\ CountOf(table, a) = CountOf(table, b)
       /\ IF ties = "ascending" THEN StrLess(Chars(a), Chars(b))
                                ELSE StrLess(Chars(b), Chars(a))

RECURSIVE OrderGroups(_, _, _)
OrderGroups(table, senders, ties) ==
    IF senders = {} THEN <<>>
    ELSE LET first == CHOOSE a \in senders :
                          \A b \in senders \ {a} : GroupBefore(table, a, b, ties)
         IN  <<first>> \o OrderGroups(table, senders \ {first}, ties)

\* main.py:352-361: the ten largest groups as SenderStat entries
top_senders(table, ties) ==
    LET list == OrderGroups(table, {m.from_msisdn : m \in table}, ties)
        kept == IF Len(list) > 10 THEN 10 ELSE Len(list)
    IN  [i \in 1..kept |-> [from_msisdn |-> list[i], count |-> CountOf(table, list[i])]]

\* main.py:363  db.query(func.min(Message.ts)).scalar(): None on no rows
first_message_ts(table) ==
    IF table = {} THEN Null
    ELSE CHOOSE t \in {m.ts : m \in table} :
             \A m \in table : ~StrLess(Chars(m.ts), Chars(t))

\* main.py:364  db.query(func.max(Message.ts)).scalar()
last_message_ts(table) ==
    IF table = {} THEN Null
    ELSE CHOOSE t \in {m.ts : m \in table} :
             \A m \in table : ~StrLess(Chars(t), Chars(m.ts))

\* storage.py:26-31  SELECT 1 succeeds or raises
db_health_check(reachable) == reachable

----------------------------------------------------------------------------
(* Metrics collector *)

GetPaths == {"/messages", "/stats", "/metrics"}

WebhookStatuses == {200, 400, 401, 422, 500}

HttpKeys == {<<"/webhook", st>> : st \in WebhookStatuses} \cup {<<p, 200>> : p \in GetPaths}

Results == {"created", "duplicate", "invalid_signature", "validation_error", "error"}

\* metrics.py:5-8  defaultdict(int) counters and an empty list
MetricsCollector ==
    [http_requests_total |-> [k \in HttpKeys |-> 0],
     webhook_requests_total |-> [k \in Results |-> 0],
     request_latencies |-> <<>>]

\* metrics.py:12  `self.http_requests_total[key] += 1` is a read ...
LoadCounter(m, key) == m.http_requests_total[key]

\* ... followed by a write of the value read plus one.
StoreCounter(m, key, value) == [m EXCEPT !.http_requests_total[key] = value]

\* metrics.py:10-12, run without another thread in between
record_http_request(m, path, st) ==
    StoreCounter(m, <<path, st>>, LoadCounter(m, <<path, st>>) + 1)

\* The key is built without the result label.
record_webhook_result_FixedKey(m, res) ==
    [m EXCEPT !.webhook_requests_total["error"] = @ + 1]

\* metrics.py:14-16
record_webhook_result(m, res) == [m EXCEPT !.webhook_requests_total[res] = @ + 1]

\* metrics.py:18-19
record_latency(m, latency_ms) ==
    [m EXCEPT !.request_latencies = Append(@, latency_ms)]

\* metrics.py:30-31  sum(1 for l in latencies if l <= le)
Bucket(latencies, le) == Cardinality({i \in 1..Len(latencies) : latencies[i] <= le})

\* metrics.py:21-33: one line per counter that has a key, and the latency
\* histogram once a latency has been recorded
export_prometheus(m) ==
    [http_requests_total |->
        {<<k, m.http_requests_total[k]>> : k \in {j \in HttpKeys : m.http_requests_total[j] > 0}},
     webhook_requests_total |->
        {<<k, m.webhook_requests_total[k]>> : k \in {j \in Results : m.webhook_requests_total[j] > 0}},
     request_latency_ms |->
        IF Len(m.request_latencies) = 0 THEN <<>>
        ELSE <<Len(m.request_latencies), Bucket(m.request_latencies, 100),
               Bucket(m.request_latencies, 500), Len(m.request_latencies)>>]

----------------------------------------------------------------------------
(* State *)

VARIABLES
    secret,    \* settings.WEBHOOK_SECRET
    store,     \* the committed rows of table `messages`
    metrics,   \* the process-wide MetricsCollector
    now,       \* the clock read by time.time() and datetime.utcnow(); it
               \* is observed to advance from one arrival to the next
    req,       \* per request: what was received and when
    pc,        \* per request: position in its handler
    pending,   \* per request: the row added to its session, not yet committed
    loaded,    \* per request: counter value read by `+= 1`, not yet written
    status,    \* per request: HTTP status of the response, 0 before it
    end_time,  \* per request: the clock when the response was sent
    result,    \* per request: the webhook result recorded, "none" if none
    reply      \* per request: the content of the response

vars == <<secret, store, metrics, now, req, pc, pending, loaded, status, end_time, result,
          reply>>

\* Nothing has been sent yet.
NoReply == [sent |-> FALSE]

\* The 500 page the framework sends when an exception leaves a handler.
ServerErrorPage == [text |-> "Internal Server Error"]

\* main.py:193-207: str(e) names the fields that failed
ValidationError(b) ==
    IF b.json # "object" THEN {"json"}
    ELSE {f \in {"message_id", "from", "to", "ts", "text"} :
            \/ f = "message_id" /\ ~message_id_not_empty(b.message_id)
            \/ f = "from" /\ ~from_is_e164(b.from)
            \/ f = "to" /\ ~to_is_e164(b.to)
            \/ f = "ts" /\ ~ts_is_iso8601_utc(b.ts)
            \/ f = "text" /\ ~text_max_length(b.text)}

\* str(e) of the exceptions db.commit() raises other than IntegrityError
StoreFaults == {"database is locked", "disk I/O error"}

\* The text of the exception is sent to the caller.
InternalServerError_Leak(e) == [detail |-> e]

\* main.py:253-267: str(e) goes to the log, the response has a fixed detail
InternalServerError(e) == [detail |-> "Internal server error"]

Key1 == "k1"
Key2 == "k2"

\* main.py:273-277: the query parameters a GET /messages request may carry,
\* here none of them
NoQuery ==
    [limit |-> Absent, offset |-> Absent, from |-> Absent, from_ |-> Absent,
     since |-> Absent, q |-> Absent]

NoRequest ==
    [kind |-> "none", path |-> "", body |-> "", sig |-> NoHeader,
     readable |-> TRUE, start_time |-> 0, query |-> NoQuery]

\* Signature headers that do not carry the HMAC of body b under Key1: none,
\* an empty one, one made with another secret, one made for another body,
\* the right digits in upper case, and one that is not ASCII.
BadHeaders(b) ==
    {NoHeader, EmptyHeader, hexdigest(Key2, b), hexdigest(Key1, "P2"),
     UpperHex(hexdigest(Key1, b)), NonAsciiHeader}

\* The bad headers tried on a body that is also invalid.
BadHeadersInvalidBody(b) == {NoHeader, hexdigest(Key2, b), NonAsciiHeader}

\* The deliveries senders make: every body correctly signed under Key1, a valid
\* and an invalid body under each bad header, and one whose body cannot be read.
WebhookInputs ==
    {[body |-> b, sig |-> hexdigest(Key1, b), readable |-> TRUE] : b \in Bodies}
    \cup {[body |-> "P1", sig |-> h, readable |-> TRUE] : h \in BadHeaders("P1")}
    \cup {[body |-> "NoPlus", sig |-> h, readable |-> TRUE] :
             h \in BadHeadersInvalidBody("NoPlus")}
    \cup {[body |-> "P1", sig |-> hexdigest(Key1, "P1"), readable |-> FALSE]}

Init ==
    /\ secret \in {NoSecret, Key1}
    /\ store = {}
    /\ metrics = MetricsCollector
    /\ now = 0
    /\ req = [r \in Reqs |-> NoRequest]
    /\ pc = [r \in Reqs |-> "idle"]
    /\ pending = [r \in Reqs |-> NoRow]
    /\ loaded = [r \in Reqs |-> 0]
    /\ status = [r \in Reqs |-> 0]
    /\ end_time = [r \in Reqs |-> 0]
    /\ result = [r \in Reqs |-> "none"]
    /\ reply = [r \in Reqs |-> NoReply]

\* Requests arrive in slot order.
MayArrive(r) == pc[r] = "idle" /\ (IF r = 1 THEN TRUE ELSE pc[r - 1] # "idle")

\* latency_ms = (time.time() - start_time) * 1000
Latency(r) == now - req[r].start_time

\* The result counter is left out.
Emit_NoResult(m, r, st, res) ==
    record_latency(record_http_request(m, "/webhook", st), Latency(r))

\* The metric calls of one webhook response: status counter, result counter,
\* latency (main.py:170-172, 184-186, 196-198, 223-225, 240-242, 256-258).
Emit(m, r, st, res) ==
    record_latency(record_webhook_result(record_http_request(m, "/webhook", st), res),
                   Latency(r))

\* The handler returns a JSONResponse.
Respond(r, st, res, content) ==
    /\ status' = [status EXCEPT ![r] = st]
    /\ reply' = [reply EXCEPT ![r] = content]
    /\ result' = [result EXCEPT ![r] = res]
    /\ pc' = [pc EXCEPT ![r] = "done"]
    /\ end_time' = [end_time EXCEPT ![r] = now]

\* An exception leaves the handler; the framework answers 500 itself.
Unhandled(r) ==
    /\ status' = [status EXCEPT ![r] = 500]
    /\ pc' = [pc EXCEPT ![r] = "crashed"]
    /\ end_time' = [end_time EXCEPT ![r] = now]
    /\ reply' = [reply EXCEPT ![r] = ServerErrorPage]
    /\ UNCHANGED <<result, metrics>>

----------------------------------------------------------------------------
(* POST /webhook, main.py:147-267.  The handler is a coroutine: other       *)
(* requests run while it awaits the body, and other processes sharing the   *)
(* database run between its steps.                                          *)

\* main.py:153-164: a request arrives, start_time = time.time(), and
\* 1. Read raw body
ReadBody(r) ==
    /\ MayArrive(r)
    /\ \E inp \in WebhookInputs :
          /\ req' = [req EXCEPT ![r] =
                        [kind |-> "webhook", path |-> "/webhook", body |-> inp.body,
                         sig |-> inp.sig, readable |-> inp.readable, start_time |-> now,
                         query |-> NoQuery]]
          /\ IF inp.readable
                THEN /\ pc' = [pc EXCEPT ![r] = "verify"]
                     /\ UNCHANGED <<metrics, status, end_time, result, reply>>
                ELSE /\ metrics' = record_http_request(metrics, "/webhook", 400)
                     /\ Respond(r, 400, "none", [detail |-> "Could not read request body"])
    /\ now' = now + 1
    /\ UNCHANGED <<secret, store, pending, loaded>>

\* main.py:166-188: 2. Validate signature
VerifySignature(r) ==
    /\ pc[r] = "verify"
    /\ IF HeaderMissing(req[r].sig)
          THEN /\ metrics' = Emit(metrics, r, 401, "invalid_signature")
               /\ Respond(r, 401, "invalid_signature", [detail |-> "invalid signature"])
          ELSE IF EncodeRaises(secret) \/ CompareRaises(req[r].sig)
          THEN Unhandled(r)
          ELSE IF ~compare_digest(req[r].sig, hexdigest(secret, req[r].body))
          THEN /\ metrics' = Emit(metrics, r, 401, "invalid_signature")
               /\ Respond(r, 401, "invalid_signature", [detail |-> "invalid signature"])
          ELSE /\ pc' = [pc EXCEPT ![r] = "validate"]
               /\ UNCHANGED <<metrics, status, end_time, result, reply>>
    /\ UNCHANGED <<secret, store, now, req, pending, loaded>>

\* main.py:190-207: 3. Parse JSON and validate
ParseAndValidate(r) ==
    /\ pc[r] = "validate"
    /\ IF MessageRequest(BodyOf[req[r].body])
          THEN /\ pc' = [pc EXCEPT ![r] = "persist"]
               /\ UNCHANGED <<metrics, status, end_time, result, reply>>
          ELSE /\ metrics' = Emit(metrics, r, 422, "validation_error")
               /\ Respond(r, 422, "validation_error",
                       [detail |-> ValidationError(BodyOf[req[r].body])])
    /\ UNCHANGED <<secret, store, now, req, pending, loaded>>

\* main.py:211-219: the row is built (created_at = utcnow) and added to the session
Add(r) ==
    /\ pc[r] = "persist"
    /\ pending' = [pending EXCEPT ![r] = Message(BodyOf[req[r].body], now)]
    /\ pc' = [pc EXCEPT ![r] = "commit"]
    /\ UNCHANGED <<secret, store, metrics, now, req, loaded, status, end_time, result, reply>>

\* main.py:220-234: db.commit() succeeds
CommitCreated(r) ==
    /\ pc[r] = "commit"
    /\ ~IntegrityError(store, pending[r])
    /\ store' = db_commit(store, pending[r])
    /\ metrics' = Emit(metrics, r, 200, "created")
    /\ Respond(r, 200, "created", [status |-> "ok"])
    /\ UNCHANGED <<secret, now, req, pending, loaded>>

\* main.py:236-251: db.commit() raises IntegrityError
CommitDuplicate(r) ==
    /\ pc[r] = "commit"
    /\ IntegrityError(store, pending[r])
    /\ store' = db_rollback(store, pending[r])
    /\ metrics' = Emit(metrics, r, 200, "duplicate")
    /\ Respond(r, 200, "duplicate", [status |-> "ok"])
    /\ UNCHANGED <<secret, now, req, pending, loaded>>

\* main.py:253-267: db.commit() raises anything else (the store is unreachable,
\* locked, full, ...)
CommitFault(r) ==
    /\ pc[r] = "commit"
    /\ store' = db_rollback(store, pending[r])
    /\ metrics' = Emit(metrics, r, 500, "error")
    /\ \E e \in StoreFaults : Respond(r, 500, "error", InternalServerError(e))
    /\ UNCHANGED <<secret, now, req, pending, loaded>>

----------------------------------------------------------------------------
(* GET /messages, /stats, /metrics, main.py:272-396.  These handlers are    *)
(* plain functions, which the framework runs on worker threads: their       *)
(* statements interleave with those of other requests.                      *)

\* main.py:272-290, 338-347, 383-386: a GET request arrives at path p with
\* query parameters qs
Arrive(r, p, qs) ==
    /\ MayArrive(r)
    /\ req' = [req EXCEPT ![r] =
                  [kind |-> "get", path |-> p, body |-> "", sig |-> NoHeader,
                   readable |-> TRUE, start_time |-> now, query |-> qs]]
    /\ pc' = [pc EXCEPT ![r] = "handle"]
    /\ now' = now + 1
    /\ UNCHANGED <<secret, store, metrics, pending, loaded, status, end_time, result, reply>>

\* A request without query parameters.
GetArrive(r) == \E p \in GetPaths : Arrive(r, p, NoQuery)

\* One statement of a GET handler that reads: `content` is what the handler
\* holds afterwards, `next` the statement it is at.
Read(r, at, p, content, next) ==
    /\ pc[r] = at
    /\ req[r].path = p
    /\ reply' = [reply EXCEPT ![r] = content]
    /\ pc' = [pc EXCEPT ![r] = next]
    /\ UNCHANGED <<secret, store, metrics, now, req, pending, loaded, status, end_time, result>>

\* main.py:292-306: the parameters are normalised and the filtered rows counted
MessagesCount(r) ==
    Read(r, "handle", "/messages",
         [total |-> query_count(store, Bound(req[r].query))], "select")

\* main.py:308-313, 327-332: the page is selected
MessagesSelect(r) ==
    Read(r, "select", "/messages",
         [data   |-> query_all(store, Bound(req[r].query)),
          total  |-> reply[r].total,
          limit  |-> EffectiveLimit(Bound(req[r].query).limit),
          offset |-> EffectiveOffset(Bound(req[r].query).offset)], "record_load")

\* main.py:349
StatsTotal(r) ==
    Read(r, "handle", "/stats", [total_messages |-> total_messages(store)], "senders")

\* main.py:350
StatsSenders(r) ==
    Read(r, "senders", "/stats",
         [total_messages |-> reply[r].total_messages,
          senders_count |-> senders_count(store)], "top")

\* main.py:352-361
StatsTop(r) ==
    \E ties \in TieOrders :
        Read(r, "top", "/stats",
             [total_messages |-> reply[r].total_messages,
              senders_count |-> reply[r].senders_count,
              messages_per_sender |-> top_senders(store, ties)], "first")

\* main.py:363
StatsFirst(r) ==
    Read(r, "first", "/stats",
         [total_messages |-> reply[r].total_messages,
          senders_count |-> reply[r].senders_count,
          messages_per_sender |-> reply[r].messages_per_sender,
          first_message_ts |-> first_message_ts(store)], "last")

\* main.py:364, 371-377
StatsLast(r) ==
    Read(r, "last", "/stats",
         [total_messages |-> reply[r].total_messages,
          senders_count |-> reply[r].senders_count,
          messages_per_sender |-> reply[r].messages_per_sender,
          first_message_ts |-> reply[r].first_message_ts,
          last_message_ts |-> last_message_ts(store)], "record_load")

\* main.py:388
Export(r) ==
    Read(r, "handle", "/metrics", export_prometheus(metrics), "record_load")

\* main.py:316, 367, 391 -> metrics.py:12: the read of `+= 1`
RecordLoad(r) ==
    /\ pc[r] = "record_load"
    /\ loaded' = [loaded EXCEPT ![r] = LoadCounter(metrics, <<req[r].path, 200>>)]
    /\ pc' = [pc EXCEPT ![r] = "record_store"]
    /\ UNCHANGED <<secret, store, metrics, now, req, pending, status, end_time, result, reply>>

\* metrics.py:12: the write of `+= 1`
RecordStore(r) ==
    /\ pc[r] = "record_store"
    /\ metrics' = StoreCounter(metrics, <<req[r].path, 200>>, loaded[r] + 1)
    /\ pc' = [pc EXCEPT ![r] = "record_latency"]
    /\ UNCHANGED <<secret, store, now, req, pending, loaded, status, end_time, result, reply>>

\* main.py:317, 368, 392 and the return
RecordLatency(r) ==
    /\ pc[r] = "record_latency"
    /\ metrics' = record_latency(metrics, Latency(r))
    /\ Respond(r, 200, "none", reply[r])
    /\ UNCHANGED <<secret, store, now, req, pending, loaded>>

----------------------------------------------------------------------------
(* GET /health/live and /health/ready, main.py:116-142.  They record no     *)
(* metrics.                                                                 *)

\* A health probe arrives at path p and is answered st with `content`.
Probe(r, p, st, content) ==
    /\ MayArrive(r)
    /\ req' = [req EXCEPT ![r] =
                  [kind |-> "health", path |-> p, body |-> "", sig |-> NoHeader,
                   readable |-> TRUE, start_time |-> now, query |-> NoQuery]]
    /\ Respond(r, st, "none", content)
    /\ now' = now + 1
    /\ UNCHANGED <<secret, store, metrics, pending, loaded>>

\* main.py:116-119
health_live(r) == Probe(r, "/health/live", 200, [status |-> "live"])

\* main.py:122-142: `reachable` is whether SELECT 1 succeeds
health_ready(r) ==
    \E reachable \in BOOLEAN :
        IF secret = NoSecret
           THEN Probe(r, "/health/ready", 503, [detail |-> "WEBHOOK_SECRET not set"])
        ELSE IF ~db_health_check(reachable)
           THEN Probe(r, "/health/ready", 503, [detail |-> "database not ready"])
        ELSE Probe(r, "/health/ready", 200, [status |-> "ready"])

Next ==
    \E r \in Reqs :
        \/ ReadBody(r)
        \/ VerifySignature(r)
        \/ ParseAndValidate(r)
        \/ Add(r)
        \/ CommitCreated(r)
        \/ CommitDuplicate(r)
        \/ CommitFault(r)
        \/ GetArrive(r)
        \/ MessagesCount(r)
        \/ MessagesSelect(r)
        \/ StatsTotal(r)
        \/ StatsSenders(r)
        \/ StatsTop(r)
        \/ StatsFirst(r)
        \/ StatsLast(r)
        \/ Export(r)
        \/ RecordLoad(r)
        \/ RecordStore(r)
        \/ RecordLatency(r)
        \/ health_live(r)
        \/ health_ready(r)

Spec == Init /\ [][Next]_vars

----------------------------------------------------------------------------
(* The read endpoints on a store that does not change: one GET /messages    *)
(* or GET /stats request with query parameters, on a store filled before.   *)

\* Number of senders in the largest store.
MaxSenders == 11

DigitOf == <<"1", "2", "3", "4", "5", "6", "7", "8", "9">>

\* The decimal numeral of n, 0 <= n < 100.
Numeral(n) ==
    IF n < 10 THEN <<IF n = 0 THEN "0" ELSE DigitOf[n]>>
    ELSE <<DigitOf[n \div 10], IF n % 10 = 0 THEN "0" ELSE DigitOf[n % 10]>>

\* The row stored for a delivery with these fields.
Row(id, f, ts, txt) == Message(Envelope(Str(id), f, PhoneB, Str(ts), txt), 0)

\* Four messages: two with the same ts, message_ids "m10" and "m2" (the
\* order of strings is not the order of numbers), a text absent, one empty,
\* and two that differ in case only.
Stored ==
    {Row(<<"m", "1">>, PhoneA, Ts1, Absent),
     Row(<<"m", "2">>, PhoneA, Ts1, Str(<<"h", "i">>)),
     Row(<<"m", "3">>, PhoneB, Ts2, Str(<<"H", "I", " ", "t">>)),
     Row(<<"m", "1", "0">>, PhoneB, Ts1, Str(<<>>))}

\* One message from each of n senders "+1" .. "+n", and a second one from
\* the first two.
Crowd(n) ==
    {Row(<<"m">> \o Numeral(k), Str(<<"+">> \o Numeral(k)), Ts1, Absent) : k \in 1..n}
    \cup {Row(<<"m">> \o Numeral(n + k), Str(<<"+">> \o Numeral(k)), Ts2, Absent) : k \in 1..2}

Stores == (SUBSET Stored) \cup {Crowd(MaxSenders - 1), Crowd(MaxSenders)}

\* The query strings tried on GET /messages.
Queries ==
    [limit  : {Absent, IntParam(-5), IntParam(0), IntParam(1), IntParam(2),
               IntParam(100), IntParam(500)},
     offset : {Absent, IntParam(-1), IntParam(0), IntParam(1)},
     from   : {Absent, PhoneA},
     from_  : {Absent, Str(<<>>), PhoneA},
     since  : {Absent, Str(Ts1)},
     q      : {Absent, Str(<<"h">>), Str(<<"H", "I">>), Str(<<"_">>), Str(<<"%">>)}]

InitQuery ==
    /\ secret = Key1
    /\ store \in Stores
    /\ metrics = MetricsCollector
    /\ now = 0
    /\ req = [r \in Reqs |-> NoRequest]
    /\ pc = [r \in Reqs |-> "idle"]
    /\ pending = [r \in Reqs |-> NoRow]
    /\ loaded = [r \in Reqs |-> 0]
    /\ status = [r \in Reqs |-> 0]
    /\ end_time = [r \in Reqs |-> 0]
    /\ result = [r \in Reqs |-> "none"]
    /\ reply = [r \in Reqs |-> NoReply]

\* main.py:272-290: GET /messages with a query string
GetMessagesWith(r) == \E qs \in Queries : Arrive(r, "/messages", qs)

\* main.py:338-347
GetStats(r) == Arrive(r, "/stats", NoQuery)

NextQuery ==
    \E r \in {1} :
        \/ GetMessagesWith(r)
        \/ MessagesCount(r)
        \/ MessagesSelect(r)
        \/ GetStats(r)
        \/ StatsTotal(r)
        \/ StatsSenders(r)
        \/ StatsTop(r)
        \/ StatsFirst(r)
        \/ StatsLast(r)
        \/ RecordLoad(r)
        \/ RecordStore(r)
        \/ RecordLatency(r)

SpecQuery == InitQuery /\ [][NextQuery]_vars

----------------------------------------------------------------------------
(* GET /stats requests, one after another or at once, on a store that does *)
(* not change.                                                              *)

NextStats ==
    \E r \in Reqs :
        \/ GetStats(r)
        \/ StatsTotal(r)
        \/ StatsSenders(r)
        \/ StatsTop(r)
        \/ StatsFirst(r)
        \/ StatsLast(r)
        \/ RecordLoad(r)
        \/ RecordStore(r)
        \/ RecordLatency(r)

SpecStats == InitQuery /\ [][NextStats]_vars

----------------------------------------------------------------------------
(* Vocabulary of the properties *)

IsWebhook(r) == req[r].kind = "webhook"

IsGet(r) == req[r].kind = "get"

\* The request has been answered, by the handler or by the framework.
Finished(r) == pc[r] \in {"done", "crashed"}

\* The X-Signature header is the hex HMAC-SHA256 of the body under the
\* configured secret.
SignatureMatches(r) ==
    secret # NoSecret /\ req[r].sig = hexdigest(secret, req[r].body)

\* The request's body passes the validators of the code.
Accepted(r) == MessageRequest(BodyOf[req[r].body])

\* r1 was answered before r2 arrived.
Before(r1, r2) ==
    Finished(r1) /\ req[r2].kind # "none" /\ end_time[r1] <= req[r2].start_time

\* The message_id the request delivers.
IdOf(r) == BodyOf[req[r].body].message_id

RowsWithId(id) == {m \in store : m.message_id = id}

\* The field rules as the specification words them: the whole string is `+`
\* and digits, the whole string is the 20-character timestamp.
PlusDigits(v) ==
    /\ v.tag = "str"
    /\ Len(v.chars) >= 2
    /\ v.chars[1] = "+"
    /\ \A i \in 2..Len(v.chars) : v.chars[i] \in Digits

FixedWidthTs(v) ==
    /\ v.tag = "str"
    /\ Len(v.chars) = TsPatternLen
    /\ \A i \in 1..TsPatternLen :
          IF i \in DOMAIN TsLiterals THEN v.chars[i] = TsLiterals[i]
                                     ELSE v.chars[i] \in Digits

NonBlank(v) ==
    /\ v.tag = "str"
    /\ \E i \in 1..Len(v.chars) : v.chars[i] \notin Whitespace

TextWithinLimit(v) == v.tag # "str" \/ StrLen(v) <= MaxTextLen

FieldRulesHold(id, f, t, ts, txt) ==
    /\ NonBlank(id)
    /\ PlusDigits(f)
    /\ PlusDigits(t)
    /\ FixedWidthTs(ts)
    /\ TextWithinLimit(txt)

BodyObeysRules(b) ==
    /\ b.json = "object"
    /\ FieldRulesHold(b.message_id, b.from, b.to, b.ts, b.text)

----------------------------------------------------------------------------
(* C1 *)

\* Two deliveries of the same accepted, correctly signed payload, the second
\* arriving after the first was answered, no other request having created the
\* message_id, and the store faulting on neither.
TwiceInSequence(r1, r2) ==
    /\ r1 # r2
    /\ IsWebhook(r1) /\ IsWebhook(r2)
    /\ pc[r1] = "done" /\ pc[r2] = "done"
    /\ req[r1].readable /\ req[r2].readable
    /\ req[r1].body = req[r2].body
    /\ SignatureMatches(r1) /\ SignatureMatches(r2)
    /\ Accepted(r1)
    /\ Before(r1, r2)
    /\ result[r1] # "error" /\ result[r2] # "error"
    /\ \A r3 \in Reqs \ {r1, r2} :
          ~(IsWebhook(r3) /\ result[r3] = "created" /\ IdOf(r3) = IdOf(r1))

\* C1: a valid, correctly signed payload delivered twice in sequence (its
\* message_id not yet stored, the store not faulting) is answered 200 both times,
\* leaves exactly one row with that message_id, and is recorded as `created`
\* the first time and `duplicate` the second.
C1_TwiceIsOneRow ==
    \A r1, r2 \in Reqs :
        TwiceInSequence(r1, r2) =>
            /\ status[r1] = 200 /\ status[r2] = 200
            /\ result[r1] = "created"
            /\ result[r2] = "duplicate"
            /\ Cardinality(RowsWithId(IdOf(r1))) = 1

C1_Witness ==
    \E r1, r2 \in Reqs : TwiceInSequence(r1, r2) /\ req[r1].body = "P2"

----------------------------------------------------------------------------
(* C2 *)

\* The requests that reached the insert with this message_id and this outcome.
Resolved(id, res) ==
    {r \in Reqs : IsWebhook(r) /\ result[r] = res /\ pending[r].message_id = id}

IdsInPlay == {pending[r].message_id : r \in Reqs} \cup {m.message_id : m \in store}

\* C2: whatever the interleaving of the inserts of requests carrying the same
\* message_id, the store never holds two rows with that message_id, exactly
\* one request resolves to `created` for each stored message_id, and every
\* other accepted request the store did not fault on resolves to `duplicate`.
C2_OneCreatedPerId ==
    /\ \A id \in IdsInPlay :
          /\ Cardinality(RowsWithId(id)) <= 1
          /\ Cardinality(Resolved(id, "created")) = Cardinality(RowsWithId(id))
          /\ Resolved(id, "duplicate") # {} => Cardinality(Resolved(id, "created")) = 1
    /\ \A r \in Reqs :
          (IsWebhook(r) /\ pc[r] = "done" /\ pending[r] # NoRow /\ result[r] # "error")
              => /\ status[r] = 200
                 /\ result[r] \in {"created", "duplicate"}

\* Two requests carrying the same message_id with different field values,
\* each arriving before the other was answered; one created the row and the
\* other was a duplicate.
C2_Witness ==
    \E r1, r2 \in Reqs :
        /\ r1 # r2
        /\ result[r1] = "created" /\ result[r2] = "duplicate"
        /\ pending[r1].message_id = pending[r2].message_id
        /\ req[r1].body # req[r2].body
        /\ req[r1].start_time < end_time[r2] /\ req[r2].start_time < end_time[r1]

----------------------------------------------------------------------------
(* C3 *)

\* The step in which request r is answered as a duplicate.
AnsweredDuplicate(r) ==
    /\ IsWebhook(r)
    /\ pc[r] = "commit"
    /\ pc'[r] = "done"
    /\ result'[r] = "duplicate"

\* C3: a delivery whose message_id is already stored leaves the store as it
\* was: the same rows with the same field values, also when the delivery
\* carries other from/to/ts/text values.
C3_DuplicateLeavesStore ==
    [][\A r \in Reqs : AnsweredDuplicate(r) => store' = store]_vars

\* A duplicate has been answered whose fields all differ from the stored row.
C3_Witness ==
    \E r \in Reqs :
        /\ IsWebhook(r) /\ result[r] = "duplicate"
        /\ \E m \in store :
              /\ m.message_id = pending[r].message_id
              /\ m.from_msisdn # pending[r].from_msisdn
              /\ m.to_msisdn # pending[r].to_msisdn
              /\ m.ts # pending[r].ts
              /\ m.text # pending[r].text
              /\ m.created_at # pending[r].created_at

----------------------------------------------------------------------------
(* C4 *)

\* The row was inserted by a request whose signature matched.
FromSignedRequest(m) ==
    \E r \in Reqs : IsWebhook(r) /\ SignatureMatches(r) /\ pending[r] = m

\* C4: with a secret configured, every request whose X-Signature header is
\* absent or is not the hex HMAC of its body under that secret is answered 401
\* with result `invalid_signature`, and every stored row comes from a request
\* whose signature matched.
C4_BadSignatureIs401 ==
    /\ \A r \in Reqs :
          (IsWebhook(r) /\ Finished(r) /\ req[r].readable
                /\ secret # NoSecret /\ ~SignatureMatches(r))
              => /\ status[r] = 401
                 /\ result[r] = "invalid_signature"
                 /\ pending[r] = NoRow
    /\ \A m \in store : FromSignedRequest(m)

----------------------------------------------------------------------------
(* C5 *)

\* C5: every stored row obeys every field rule: message_id not blank,
\* from_msisdn and to_msisdn `+` followed by digits, ts the fixed-width
\* YYYY-MM-DDTHH:MM:SSZ, text absent or at most 4096 characters long.
C5_StoredRowsObeyRules ==
    \A m \in store :
        FieldRulesHold(m.message_id, m.from_msisdn, m.to_msisdn, m.ts, m.text)

----------------------------------------------------------------------------
(* C6 *)

\* C6: a correctly signed request is answered 422 with result
\* `validation_error` exactly when its body is not an envelope or breaks a
\* field rule; a body that obeys the rules is answered 200 (unless the
\* store faults).
C6_422IffRuleBroken ==
    \A r \in Reqs :
        (IsWebhook(r) /\ Finished(r) /\ req[r].readable /\ SignatureMatches(r))
            => /\ status[r] = 422 <=> ~BodyObeysRules(BodyOf[req[r].body])
               /\ status[r] = 422 <=> result[r] = "validation_error"
               /\ (BodyObeysRules(BodyOf[req[r].body]) /\ result[r] # "error")
                      => status[r] = 200

----------------------------------------------------------------------------
(* C7 *)

\* The request has reached the Persist stage.
AtPersist(r) ==
    \/ pc[r] \in {"persist", "commit"}
    \/ pending[r] # NoRow
    \/ result[r] \in {"created", "duplicate", "error"}

\* C7: the stages run in the order ReadBody, VerifySignature,
\* ParseAndValidate, Persist and the first that fails answers: a request with
\* a bad signature and an invalid payload is answered 401, and a request
\* reaches Persist only with a matching signature and an accepted body.
C7_StagesInOrder ==
    \A r \in Reqs :
        IsWebhook(r) =>
            /\ (Finished(r) /\ req[r].readable /\ secret # NoSecret
                    /\ ~SignatureMatches(r) /\ ~Accepted(r))
                  => status[r] = 401
            /\ (Finished(r) /\ ~req[r].readable) => status[r] = 400
            /\ AtPersist(r) => (req[r].readable /\ SignatureMatches(r) /\ Accepted(r))

----------------------------------------------------------------------------
(* C8 *)

\* C8: whatever the body, the X-Signature header and the configuration, a
\* request ends inside the handler, in one of its responses; none leaves it
\* through an unhandled exception.
C8_NoUnhandledFault ==
    \A r \in Reqs :
        IsWebhook(r) =>
            /\ pc[r] # "crashed"
            /\ pc[r] = "done" => status[r] \in WebhookStatuses

----------------------------------------------------------------------------
(* C9 *)

\* The step in which the handler answers webhook request r.
Answers(r) == req'[r].kind = "webhook" /\ pc[r] # "done" /\ pc'[r] = "done"

\* Counter function g is f with exactly key k incremented by one.
Bumped(f, g, k) ==
    /\ g[k] = f[k] + 1
    /\ \A j \in DOMAIN f \ {k} : g[j] = f[j]

\* The result label the outcome calls for.
LabelFor(r) ==
    CASE status'[r] = 401 -> "invalid_signature"
      [] status'[r] = 422 -> "validation_error"
      [] status'[r] = 500 -> "error"
      [] status'[r] = 200 -> IF store' # store THEN "created" ELSE "duplicate"
      [] OTHER -> "none"

OneStatusCounter(r) ==
    Bumped(metrics.http_requests_total, metrics'.http_requests_total,
           <<"/webhook", status'[r]>>)

OneResultCounter(r) ==
    /\ LabelFor(r) \in Results
    /\ Bumped(metrics.webhook_requests_total, metrics'.webhook_requests_total,
              LabelFor(r))

OneLatency(r) ==
    Len(metrics'.request_latencies) = Len(metrics.request_latencies) + 1

\* C9 as claimed: every answered request increments one status counter and
\* appends one latency; every one but the ReadBody failure increments the
\* result counter of its outcome, and the ReadBody failure none.
C9_OneOfEachMetric ==
    [][\A r \in Reqs :
          Answers(r) =>
              /\ OneStatusCounter(r)
              /\ OneLatency(r)
              /\ IF status'[r] = 400
                    THEN metrics'.webhook_requests_total = metrics.webhook_requests_total
                    ELSE OneResultCounter(r)]_vars

\* C9 amended: the ReadBody failure (400) increments its status counter and
\* nothing else: no result counter and no latency observation.  Every other
\* answer of the handler increments one status counter, the result counter
\* of its outcome, and appends one latency.  A request that leaves the
\* handler through an exception records nothing.
C9_OneOfEachMetricBut400 ==
    [][\A r \in Reqs :
          /\ Answers(r) =>
                /\ OneStatusCounter(r)
                /\ IF status'[r] = 400
                      THEN /\ metrics'.webhook_requests_total = metrics.webhook_requests_total
                           /\ metrics'.request_latencies = metrics.request_latencies
                      ELSE /\ OneResultCounter(r)
                           /\ OneLatency(r)
          /\ (pc[r] # "crashed" /\ pc'[r] = "crashed") => metrics' = metrics]_vars

\* A ReadBody failure and a request that reached an outcome have both been
\* answered; the only latency observed is the second one's.
C9_Witness ==
    \E r1, r2 \in Reqs :
        /\ IsWebhook(r1) /\ pc[r1] = "done" /\ status[r1] = 400
        /\ IsWebhook(r2) /\ pc[r2] = "done" /\ result[r2] \in Results
        /\ metrics.http_requests_total[<<"/webhook", 400>>] = 1
        /\ metrics.webhook_requests_total[result[r2]] = 1
        /\ Len(metrics.request_latencies) = 1

----------------------------------------------------------------------------
(* C10 *)

\* The calls of record_http_request that have returned, by key.
HttpCalls(k) ==
    {r \in Reqs :
        \/ IsWebhook(r) /\ pc[r] = "done" /\ k = <<"/webhook", status[r]>>
        \/ IsGet(r) /\ pc[r] \in {"record_latency", "done"} /\ k = <<req[r].path, 200>>}

ResultCalls(res) == {r \in Reqs : IsWebhook(r) /\ result[r] = res}

LatencyCalls ==
    {r \in Reqs :
        \/ IsWebhook(r) /\ pc[r] = "done" /\ status[r] # 400
        \/ IsGet(r) /\ pc[r] = "done"}

\* No request is inside a handler.
Quiescent == \A r \in Reqs : pc[r] \in {"idle", "done", "crashed"}

\* C10: once all calls have completed, each counter equals the number of
\* calls made with its key and the latency list is as long as the number of
\* record_latency calls.
C10_NoLostUpdate ==
    Quiescent =>
        /\ \A k \in HttpKeys :
              metrics.http_requests_total[k] = Cardinality(HttpCalls(k))
        /\ \A res \in Results :
              metrics.webhook_requests_total[res] = Cardinality(ResultCalls(res))
        /\ Len(metrics.request_latencies) = Cardinality(LatencyCalls)

----------------------------------------------------------------------------
(* C11 *)

\* Request r leaves Persist with a fault: its commit was attempted and ended
\* neither in a stored row nor in a uniqueness conflict.
StoreFaulted(r) ==
    /\ pc[r] = "commit" /\ pc'[r] = "done"
    /\ result'[r] \notin {"created", "duplicate"}

\* C11: a store fault other than a uniqueness conflict during Persist is
\* answered 500 with the fixed generic detail, whatever the text of the
\* fault, is recorded once as webhook result `error`, and leaves the stored
\* rows as they were: the pending row is not inserted.
C11_StoreFaultIs500 ==
    [][\A r \in Reqs :
          StoreFaulted(r) =>
              /\ status'[r] = 500
              /\ reply'[r] = [detail |-> "Internal server error"]
              /\ reply'[r].detail \notin StoreFaults
              /\ result'[r] = "error"
              /\ Bumped(metrics.webhook_requests_total,
                        metrics'.webhook_requests_total, "error")
              /\ store' = store]_vars

\* A commit faulted on a row that is not in the non-empty store.
C11_Witness ==
    \E r \in Reqs :
        /\ IsWebhook(r) /\ pc[r] = "done" /\ result[r] = "error"
        /\ status[r] = 500
        /\ store # {}
        /\ ~IntegrityError(store, pending[r])

----------------------------------------------------------------------------
(* C12 *)

\* GET /messages request r has been answered.
Listed(r) == IsGet(r) /\ req[r].path = "/messages" /\ pc[r] = "done"

\* C12: when GET /messages is given an integer limit, the response's limit is
\* that value if it lies in 1..100 and 50 otherwise; when given an integer
\* offset, the response's offset is that value if it is >= 0 and 0
\* otherwise; and data has at most as many items as the response's limit.
C12_LimitOffsetNormalised ==
    \A r \in Reqs :
        Listed(r) =>
            LET qs == req[r].query IN
            /\ qs.limit.tag = "int" =>
                  reply[r].limit = IF 1 <= qs.limit.n /\ qs.limit.n <= 100
                                      THEN qs.limit.n ELSE 50
            /\ qs.offset.tag = "int" =>
                  reply[r].offset = IF qs.offset.n >= 0 THEN qs.offset.n ELSE 0
            /\ Len(reply[r].data) <= reply[r].limit

\* Two answered requests are not needed: limit=500 and offset=-1 were given
\* in one request that returned rows, and the response says 50 and 0.
C12_Witness ==
    \E r \in Reqs :
        /\ Listed(r)
        /\ req[r].query.limit = IntParam(500)
        /\ req[r].query.offset = IntParam(-1)
        /\ reply[r].limit = 50 /\ reply[r].offset = 0
        /\ Len(reply[r].data) > 0

----------------------------------------------------------------------------
(* C13 *)

\* Item x comes strictly before item y in the order (ts, message_id).
Ascends(x, y) ==
    \/ StrLess(Chars(x.ts), Chars(y.ts))
    \/ x.ts = y.ts /\ StrLess(Chars(x.message_id), Chars(y.message_id))

\* The rows the filters of request r select.
Selected(r) ==
    LET args == Bound(req[r].query) IN Filter(store, args.from_, args.since, args.q)

\* C13: the items of a GET /messages response are strictly ascending in
\* (ts, message_id) from each item to the next, and a request with limit=1
\* and offset=0 on a non-empty filtered set returns the one row that is
\* before every other row of the filtered set.
C13_AscendingByTsThenId ==
    \A r \in Reqs :
        Listed(r) =>
            /\ \A i \in 1..(Len(reply[r].data) - 1) :
                  Ascends(reply[r].data[i], reply[r].data[i + 1])
            /\ (/\ req[r].query.limit = IntParam(1)
                /\ reply[r].offset = 0
                /\ Selected(r) # {}) =>
                  /\ Len(reply[r].data) = 1
                  /\ \A m \in Selected(r) :
                        \/ MessageResponse(m) = reply[r].data[1]
                        \/ Ascends(reply[r].data[1], m)

\* Three rows were returned, two of them with the same ts, "m10" before "m2".
C13_Witness ==
    \E r \in Reqs :
        /\ Listed(r)
        /\ Len(reply[r].data) >= 3
        /\ \E i \in 1..(Len(reply[r].data) - 1) :
              /\ reply[r].data[i].ts = reply[r].data[i + 1].ts
              /\ reply[r].data[i].message_id = Str(<<"m", "1", "0">>)
              /\ reply[r].data[i + 1].message_id = Str(<<"m", "2">>)

----------------------------------------------------------------------------
(* C14 *)

\* q occurs in s as a contiguous run of characters, letter case ignored.
ContainsIgnoringCase(s, q) ==
    \E k \in 0..(Len(s) - Len(q)) :
        \A i \in 1..Len(q) : lower(s[k + i]) = lower(q[i])

\* The rows that satisfy every filter the request supplies: sender, since, q.
Matching(r) ==
    LET qs == req[r].query IN
    {m \in store :
        /\ qs.from_.tag = "str" /\ StrLen(qs.from_) > 0 => m.from_msisdn = qs.from_
        /\ qs.since.tag = "str" => ~StrLess(Chars(m.ts), Chars(qs.since))
        /\ qs.q.tag = "str" /\ StrLen(qs.q) > 0 =>
              m.text.tag = "str" /\ ContainsIgnoringCase(Chars(m.text), Chars(qs.q))}

\* The position of row m in the list of the matching rows, counted from 0.
Position(r, m) ==
    Cardinality({o \in Matching(r) : Ascends(MessageResponse(o), MessageResponse(m))})

\* The matching rows at positions offset .. offset+limit-1.
OnPage(r) ==
    {m \in Matching(r) :
        /\ Position(r, m) >= reply[r].offset
        /\ Position(r, m) < reply[r].offset + reply[r].limit}

\* C14: on an unchanging store, `total` of a GET /messages response is the
\* number of rows that satisfy all the supplied filters (sender equal, ts >=
\* since, text containing q as a substring whatever the case), and data is
\* the rows at positions offset .. offset+limit-1 of those rows in list order.
C14_FilteredPage ==
    \A r \in Reqs :
        Listed(r) =>
            /\ reply[r].total = Cardinality(Matching(r))
            /\ Len(reply[r].data) = Cardinality(OnPage(r))
            /\ \A m \in OnPage(r) :
                  reply[r].data[Position(r, m) - reply[r].offset + 1] = MessageResponse(m)

----------------------------------------------------------------------------
(* C15 *)

\* C15: a GET /messages request whose query string has the parameter `from`
\* with value X gets only rows with from_msisdn = X in data, and its total
\* is the number of rows with from_msisdn = X among those its other filters
\* select.
C15_FromParameterFilters ==
    \A r \in Reqs :
        Listed(r) /\ req[r].query.from.tag = "str" =>
            /\ \A i \in 1..Len(reply[r].data) :
                  reply[r].data[i].from_msisdn = req[r].query.from
            /\ reply[r].total =
                  Cardinality({m \in Selected(r) : m.from_msisdn = req[r].query.from})

----------------------------------------------------------------------------
(* C16 *)

\* GET /stats request r has been answered.
Summarised(r) == IsGet(r) /\ req[r].path = "/stats" /\ pc[r] = "done"

Senders == {m.from_msisdn : m \in store}

\* The number of stored messages of a sender.
TrueCount(sender) == Cardinality({m \in store : m.from_msisdn = sender})

\* The senders listed in messages_per_sender of r's response.
Kept(r) ==
    {reply[r].messages_per_sender[i].from_msisdn :
        i \in 1..Len(reply[r].messages_per_sender)}

\* C16: on an unchanging store, a GET /stats response has total_messages =
\* number of rows, senders_count = number of distinct from_msisdn,
\* messages_per_sender of at most 10 entries, each a sender with its true
\* count, in non-increasing order of count, no omitted sender having more
\* messages than a listed one, and first/last_message_ts = the minimum and
\* maximum ts, both null when there are no rows.
C16_StatsAreExact ==
    \A r \in Reqs :
        Summarised(r) =>
            LET mps == reply[r].messages_per_sender IN
            /\ reply[r].total_messages = Cardinality(store)
            /\ reply[r].senders_count = Cardinality(Senders)
            /\ Len(mps) <= 10
            /\ \A i \in 1..Len(mps) :
                  /\ mps[i].from_msisdn \in Senders
                  /\ mps[i].count = TrueCount(mps[i].from_msisdn)
            /\ \A i \in 1..(Len(mps) - 1) : mps[i].count >= mps[i + 1].count
            /\ \A s \in Senders \ Kept(r) :
                  /\ Len(mps) = 10
                  /\ \A i \in 1..Len(mps) : mps[i].count >= TrueCount(s)
            /\ IF store = {}
                  THEN /\ reply[r].first_message_ts = Null
                       /\ reply[r].last_message_ts = Null
                  ELSE /\ reply[r].first_message_ts \in {m.ts : m \in store}
                       /\ reply[r].last_message_ts \in {m.ts : m \in store}
                       /\ \A m \in store :
                             /\ ~StrLess(Chars(m.ts), Chars(reply[r].first_message_ts))
                             /\ ~StrLess(Chars(reply[r].last_message_ts), Chars(m.ts))

\* More than ten senders are stored, two of them with two messages: they
\* head the list of ten, and the other senders have fewer messages.
C16_Witness ==
    \E r \in Reqs :
        /\ Summarised(r)
        /\ reply[r].senders_count > 10
        /\ reply[r].total_messages > reply[r].senders_count
        /\ Len(reply[r].messages_per_sender) = 10
        /\ reply[r].messages_per_sender[2].count = 2
        /\ reply[r].messages_per_sender[3].count = 1
        /\ reply[r].first_message_ts # reply[r].last_message_ts

----------------------------------------------------------------------------
(* C17 *)

\* C17: the messages_per_sender list of GET /stats is determined by the set
\* of stored rows: any two responses computed on the same rows carry the
\* same list, with the same senders kept and in the same order.
C17_TopSendersDetermined ==
    \A r1, r2 \in Reqs :
        Summarised(r1) /\ Summarised(r2) =>
            reply[r1].messages_per_sender = reply[r2].messages_per_sender

----------------------------------------------------------------------------
(* C18 *)

\* The step is one of request r to a read endpoint: GET /messages, /stats,
\* /metrics, /health/live or /health/ready.
ReadStep(r) ==
    /\ req'[r].kind \in {"get", "health"}
    /\ pc'[r] # pc[r]

\* C18: every step keeps every stored row, with the values it has, and a
\* step of a request to a read endpoint leaves the store as it is.
C18_RowsStayAsStored ==
    [][/\ store \subseteq store'
       /\ \A m \in store, n \in store' : n.message_id = m.message_id => n = m
       /\ \A r \in Reqs : ReadStep(r) => store' = store]_vars

\* A row was stored by a request that ended before a read request began,
\* and it is there when the read request has been answered.
C18_Witness ==
    \E r1, r2 \in Reqs :
        /\ IsWebhook(r1) /\ result[r1] = "created"
        /\ req[r2].kind \in {"get", "health"} /\ pc[r2] = "done"
        /\ Before(r1, r2)
        /\ pending[r1] \in store

----------------------------------------------------------------------------
(* C19 *)

\* A webhook request has arrived and has not been answered.
WebhookInFlight == \E r \in Reqs : IsWebhook(r) /\ ~Finished(r)

\* C19: the `created` result counter never exceeds the number of stored
\* rows, and equals it whenever no webhook request is in flight.
C19_CreatedCountsRows ==
    /\ metrics.webhook_requests_total["created"] <= Cardinality(store)
    /\ ~WebhookInFlight =>
          metrics.webhook_requests_total["created"] = Cardinality(store)

\* One delivery was stored and counted, a later one of the same message_id
\* was answered as a duplicate and not counted, and none is in flight.
C19_Witness ==
    /\ ~WebhookInFlight
    /\ Cardinality(store) = 1
    /\ metrics.webhook_requests_total["created"] = 1
    /\ \E r \in Reqs : IsWebhook(r) /\ result[r] \in {"duplicate", "error"}

----------------------------------------------------------------------------
(* C20 *)

\* The sum of the counts of a messages_per_sender list.
RECURSIVE SumOfCounts(_)
SumOfCounts(list) ==
    IF Len(list) = 0 THEN 0 ELSE list[1].count + SumOfCounts(Tail(list))

\* C20: every GET /stats response is consistent with itself, also when
\* webhook requests commit while it is computed: first_message_ts is null
\* exactly when total_messages is 0, senders_count is at most
\* total_messages, and the counts of messages_per_sender add up to at most
\* total_messages.
C20_StatsOfOneState ==
    \A r \in Reqs :
        Summarised(r) =>
            /\ reply[r].first_message_ts = Null <=> reply[r].total_messages = 0
            /\ reply[r].senders_count <= reply[r].total_messages
            /\ SumOfCounts(reply[r].messages_per_sender) <= reply[r].total_messages

=============================================================================
